---- MODULE Spec2Model ----
(***************************************************************************)
(* Model of the waste-classification backend:                              *)
(*   src/backend/model/predict.py  (WastePredictor)                        *)
(*   src/backend/app.py            (Flask handlers around the predictor)   *)
(*                                                                         *)
(* Real numbers are fixed-point integers: the real x is the integer        *)
(* x * Scale.  A probability 0.9996 is 9996, a confidence of 99.96 percent *)
(* is 999600, and a value with one decimal place is a multiple of Tenth.   *)
(***************************************************************************)
EXTENDS Integers, Sequences, FiniteSets, TLC

\* ------------------------------------------------------------------ bounds
\* Largest number of output units of a loaded model (one more than the taxonomy).
MaxOut == 7
\* Distance between two sampled draws of np.random.uniform(85, 99).
DrawStep == 45550
\* Longest list handed to predict_batch.
MaxBatch == 2
\* Most files the upload folder holds before further uploads are refused.
MaxUploads == 1
\* requests to /api/analyze handled side by side
MaxInflight == 2
\* longest file name built from the letters of NameAlphabet
MaxName == 5
\* The most image files a class directory holds when it is split.
MaxImages == 3
\* The most files the directory clean_dataset runs on holds.
MaxFiles == 2

\* ------------------------------------------------------- program constants
\* One decimal place (0.1) in fixed point: round(confidence, 1).
Tenth == 1000
\* Fixed-point denominator: one unit is 1/Scale.
Scale == 10 * Tenth
\* self.img_size
IMG_SIZE == 224
\* np.random.uniform(85, 99)
UniformLow == 85
UniformHigh == 99
\* image_array / 255.0
PixelMax == 255

\* ------------------------------------------------------------- taxonomy
\* WastePredictor.WASTE_CATEGORIES; co2 is in fixed point, the icon is named
\* by its code point, the tip by its first sentence.
WASTE_CATEGORIES ==
  (0 :> [name |-> "Glass", type |-> "Recyclable",
         tip |-> "Separate by color when possible.",
         co2 |-> 4000, color |-> "#8B5CF6", icon |-> "U+1F37E"]) @@
  (1 :> [name |-> "Metal", type |-> "Recyclable",
         tip |-> "Aluminum cans are infinitely recyclable!",
         co2 |-> 6000, color |-> "#EF4444", icon |-> "U+1F96B"]) @@
  (2 :> [name |-> "Organic Waste", type |-> "Compostable",
         tip |-> "Perfect for composting!",
         co2 |-> 2000, color |-> "#F59E0B", icon |-> "U+1F342"]) @@
  (3 :> [name |-> "Paper", type |-> "Recyclable",
         tip |-> "Keep paper clean and dry.",
         co2 |-> 3000, color |-> "#10B981", icon |-> "U+1F4C4"]) @@
  (4 :> [name |-> "Plastic", type |-> "Recyclable",
         tip |-> "Rinse thoroughly and remove labels before recycling.",
         co2 |-> 5000, color |-> "#3B82F6", icon |-> "U+267B"]) @@
  (5 :> [name |-> "Textiles", type |-> "Recyclable",
         tip |-> "Donate wearable clothes to charity.",
         co2 |-> 7000, color |-> "#EC4899", icon |-> "U+1F455"])

\* len(self.WASTE_CATEGORIES)
NumCategories == Cardinality(DOMAIN WASTE_CATEGORIES)

\* ------------------------------------------------------------- arithmetic
\* x * 100 on fixed-point values (the factor is a plain integer).
Times100(x) == x * 100

\* Variant of PyRound1: the confidence is stored as computed, not rounded.
PyRound1Skipped(x) == x

\* round(x, 1): the nearest multiple of 0.1.  Python rounds the binary value
\* of the float correctly; a value that lies exactly halfway goes to the even
\* digit, which is the rule used here for every decimal tie.
PyRound1(x) ==
  LET q == x \div Tenth
      r == x % Tenth
  IN  IF 2 * r < Tenth THEN q * Tenth
      ELSE IF 2 * r > Tenth THEN (q + 1) * Tenth
      ELSE IF q % 2 = 0 THEN q * Tenth ELSE (q + 1) * Tenth

\* np.argmax(v): one left-to-right scan that keeps the first largest element;
\* the result is the 0-based index.
RECURSIVE ArgmaxScan(_, _, _)
ArgmaxScan(v, i, best) ==
  IF i > Len(v) THEN best - 1
  ELSE IF v[i] > v[best] THEN ArgmaxScan(v, i + 1, i)
  ELSE ArgmaxScan(v, i + 1, best)

\* Variant of NpArgmax: the scan replaces the best element on >=, so the
\* last of several largest elements wins.
RECURSIVE ArgmaxScanLast(_, _, _)
ArgmaxScanLast(v, i, best) ==
  IF i > Len(v) THEN best - 1
  ELSE IF v[i] >= v[best] THEN ArgmaxScanLast(v, i + 1, i)
  ELSE ArgmaxScanLast(v, i + 1, best)

NpArgmaxLast(v) == ArgmaxScanLast(v, 2, 1)

NpArgmax(v) == ArgmaxScan(v, 2, 1)

\* ------------------------------------------------------------------ state
VARIABLES
  pc,            \* "import": module imported, predictor not built; "ready"; "failed"
  tf_available,  \* TF_AVAILABLE, fixed by the import of tensorflow
  model_file,    \* what lies at the configured MODEL_PATH
  waste_categories, \* the dict WastePredictor.WASTE_CATEGORIES holds
  inflight,      \* the /api/analyze requests being handled side by side
  model,         \* self.model
  model_loaded,  \* self.model_loaded
  img_size,      \* self.img_size
  load_calls,    \* calls of keras.models.load_model so far
  uploads,       \* files in UPLOAD_FOLDER
  last           \* the last call or request and what it gave back

vars == <<pc, tf_available, model_file, waste_categories, inflight, model, model_loaded, img_size,
          load_calls, uploads, last>>

\* The predictor object as the methods see it.
Self ==
  [model |-> model, model_loaded |-> model_loaded, img_size |-> img_size,
   WASTE_CATEGORIES |-> waste_categories]

\* ------------------------------------------------------------ model file
\* self.model = None
NoModel == [kind |-> "None", classes |-> 0]

\* The object keras.models.load_model returns: a network with `classes`
\* output units.
KerasModel(classes) == [kind |-> "keras", classes |-> classes]

\* The configured model path: not given (None or ""), given but absent,
\* a 0-byte file, a file the deserializer rejects, a file it accepts.
NoPath      == [given |-> FALSE, exists |-> FALSE, size |-> 0, loads |-> FALSE, classes |-> 0]
AbsentFile  == [given |-> TRUE,  exists |-> FALSE, size |-> 0, loads |-> FALSE, classes |-> 0]
EmptyFile   == [given |-> TRUE,  exists |-> TRUE,  size |-> 0, loads |-> FALSE, classes |-> 0]
BrokenFile  == [given |-> TRUE,  exists |-> TRUE,  size |-> 1, loads |-> FALSE, classes |-> 0]
GoodFile(c) == [given |-> TRUE,  exists |-> TRUE,  size |-> 1, loads |-> TRUE,  classes |-> c]

ModelFiles == {NoPath, AbsentFile, EmptyFile, BrokenFile} \cup {GoodFile(c) : c \in (NumCategories - 1)..MaxOut}

\* The process starts with tensorflow importable and any of these files at
\* the model path, or with tensorflow missing and one file of each kind the
\* constructor could tell apart.
StartEnvs ==
  { <<TRUE, f>> : f \in ModelFiles }
  \cup { <<FALSE, f>> : f \in {NoPath, AbsentFile, EmptyFile, BrokenFile,
                               GoodFile(NumCategories)} }

\* ---------------------------------------------------------- construction
\* Variant of LoadModelTry: no test of the file size, so a 0-byte file
\* reaches the deserializer, which rejects it.
LoadModelTryUnsized(self, file) ==
  IF ~file.exists
    THEN [exc |-> FALSE, model |-> NoModel, model_loaded |-> FALSE, load_calls |-> 0]
  ELSE IF ~file.loads
    THEN [exc |-> TRUE, model |-> self.model, model_loaded |-> self.model_loaded,
          load_calls |-> 1]
  ELSE [exc |-> FALSE, model |-> KerasModel(file.classes), model_loaded |-> TRUE,
        load_calls |-> 1]

\* The try block of _load_model: `exc` tells whether it left by an exception;
\* the fields are self.model and self.model_loaded when it was left.
LoadModelTry(self, file) ==
  IF ~file.exists
    THEN [exc |-> FALSE, model |-> NoModel, model_loaded |-> FALSE, load_calls |-> 0]
  ELSE IF file.size = 0
    THEN [exc |-> FALSE, model |-> NoModel, model_loaded |-> FALSE, load_calls |-> 0]
  ELSE IF ~file.loads
    THEN [exc |-> TRUE, model |-> self.model, model_loaded |-> self.model_loaded,
          load_calls |-> 1]
  ELSE [exc |-> FALSE, model |-> KerasModel(file.classes), model_loaded |-> TRUE,
        load_calls |-> 1]

\* Variant of LoadModelExcept: the handler reports and raises again.
LoadModelExceptReraising(self, t) ==
  [raised |-> TRUE, model |-> t.model, model_loaded |-> t.model_loaded,
   load_calls |-> t.load_calls]

\* The except clause of _load_model: report, reset both fields, swallow.
LoadModelExcept(self, t) ==
  [raised |-> FALSE, model |-> NoModel, model_loaded |-> FALSE, load_calls |-> t.load_calls]

\* WastePredictor._load_model
load_model(self, file) ==
  LET t == LoadModelTry(self, file)
  IN  IF t.exc THEN LoadModelExcept(self, t)
      ELSE [raised |-> FALSE, model |-> t.model, model_loaded |-> t.model_loaded,
            load_calls |-> t.load_calls]

\* Variant of WastePredictorInit: a given path goes straight to the
\* deserializer, outside any try block.
WastePredictorInitEager(file, tf) ==
  IF file.given /\ tf
    THEN IF file.exists /\ file.loads
           THEN [raised |-> FALSE, model |-> KerasModel(file.classes),
                 model_loaded |-> TRUE, load_calls |-> 1, img_size |-> IMG_SIZE]
           ELSE [raised |-> TRUE, model |-> NoModel, model_loaded |-> FALSE,
                 load_calls |-> 1, img_size |-> IMG_SIZE]
    ELSE [raised |-> FALSE, model |-> NoModel, model_loaded |-> FALSE,
          load_calls |-> 0, img_size |-> IMG_SIZE]

\* Variant of WastePredictorInit: the test of TF_AVAILABLE is left out and
\* the file is loaded whenever it exists.
WastePredictorInitIgnoringTf(file, tf) ==
  LET self0 == [model |-> NoModel, model_loaded |-> FALSE, img_size |-> IMG_SIZE]
  IN  IF file.given /\ file.exists
        THEN load_model(self0, file) @@ [img_size |-> IMG_SIZE]
        ELSE [raised |-> FALSE, model |-> NoModel, model_loaded |-> FALSE,
              load_calls |-> 0, img_size |-> IMG_SIZE]

\* WastePredictor.__init__
WastePredictorInit(file, tf) ==
  LET self0 == [model |-> NoModel, model_loaded |-> FALSE, img_size |-> IMG_SIZE]
  IN  IF file.given /\ file.exists /\ tf
        THEN load_model(self0, file) @@ [img_size |-> IMG_SIZE]
        ELSE [raised |-> FALSE, model |-> NoModel, model_loaded |-> FALSE,
              load_calls |-> 0, img_size |-> IMG_SIZE]

\* ------------------------------------------------------------ image files
\* What lies at an image path: `state` is "absent" (no such file), "garbage"
\* (bytes no codec recognises), "truncated" (a header that opens, pixel data
\* that does not load) or "image"; an image has a PIL mode, a size and the
\* smallest and largest channel value it holds.
ImageFile(mode, w, h) ==
  [state |-> "image", mode |-> mode, width |-> w, height |-> h, pmin |-> 0, pmax |-> PixelMax]
AbsentImage    == [state |-> "absent",    mode |-> "", width |-> 0, height |-> 0, pmin |-> 0, pmax |-> 0]
GarbageImage   == [state |-> "garbage",   mode |-> "", width |-> 0, height |-> 0, pmin |-> 0, pmax |-> 0]
TruncatedImage == [state |-> "truncated", mode |-> "RGB", width |-> 64, height |-> 64, pmin |-> 0, pmax |-> 0]

StoredImages ==
  { ImageFile("RGB", 640, 480), ImageFile("RGBA", 32, 32), ImageFile("L", 224, 224),
    ImageFile("P", 100, 300), ImageFile("LA", 500, 500), ImageFile("CMYK", 1, 1),
    GarbageImage, TruncatedImage }

Images == StoredImages \cup {AbsentImage}

\* The trailing axes np.array(image) has for each PIL mode: none for a
\* single-band image, one of the band count otherwise.
BandAxis(mode) ==
  CASE mode = "RGB"  -> <<3>>
    [] mode = "RGBA" -> <<4>>
    [] mode = "CMYK" -> <<4>>
    [] mode = "LA"   -> <<2>>
    [] OTHER         -> <<>>

NoTensor == [shape |-> <<>>, lo |-> 0, hi |-> 0]

\* Variant of preprocess_image: a file that does not decode yields a blank
\* tensor instead of an exception.
PreprocessImageLenient(self, image) ==
  IF image.state = "absent"
    THEN [raised |-> TRUE, error |-> "FileNotFoundError", tensor |-> NoTensor]
    ELSE [raised |-> FALSE, error |-> "",
          tensor |-> [shape |-> <<1, self.img_size, self.img_size, 3>>, lo |-> 0, hi |-> 0]]

\* WastePredictor.preprocess_image: Image.open, RGBA -> RGB, resize,
\* np.array(...) / 255.0, np.expand_dims(axis=0).
preprocess_image(self, image) ==
  IF image.state = "absent"
    THEN [raised |-> TRUE, error |-> "FileNotFoundError", tensor |-> NoTensor]
  ELSE IF image.state = "garbage"
    THEN [raised |-> TRUE, error |-> "UnidentifiedImageError", tensor |-> NoTensor]
  ELSE IF image.state = "truncated"
    THEN [raised |-> TRUE, error |-> "OSError", tensor |-> NoTensor]
  ELSE
    LET mode    == IF image.mode = "RGBA" THEN "RGB" ELSE image.mode
        resized == <<self.img_size, self.img_size>>
        array   == [shape |-> resized \o BandAxis(mode),
                    lo |-> (image.pmin * Scale) \div PixelMax,
                    hi |-> (image.pmax * Scale) \div PixelMax]
    IN  [raised |-> FALSE, error |-> "",
         tensor |-> [array EXCEPT !.shape = <<1>> \o array.shape]]

\* self.model.predict(processed_image, verbose=0): the network was built
\* with input_shape (img_size, img_size, 3) and rejects any other tensor;
\* otherwise it hands back the batch of probability rows computed by the
\* runtime, of which `probabilities` is the first.
ModelPredict(mdl, tensor, probabilities) ==
  IF tensor.shape # <<1, IMG_SIZE, IMG_SIZE, 3>>
    THEN [raised |-> TRUE, error |-> "ValueError", predictions |-> <<>>]
    ELSE [raised |-> FALSE, error |-> "", predictions |-> probabilities]

\* ---------------------------------------------------------------- predict
NoResult ==
  [item |-> "", category |-> "", confidence |-> 0, tip |-> "", co2 |-> 0,
   color |-> "", icon |-> "", category_id |-> -1]

\* What one call of predict gives back: an exception or a result, with the
\* probability row the model returned (if any) and the calls it made.
Raise(error, predictions, pre, inf) ==
  [raised |-> TRUE, error |-> error, result |-> NoResult, predictions |-> predictions,
   preprocess_calls |-> pre, infer_calls |-> inf]

Return(result, predictions, pre, inf) ==
  [raised |-> FALSE, error |-> "", result |-> result, predictions |-> predictions,
   preprocess_calls |-> pre, infer_calls |-> inf]

\* Variant of PredictLoaded: a failure of preprocessing is caught and raised
\* again as a RuntimeError.
PredictLoadedWrapping(self, image, env) ==
  LET processed_image == preprocess_image(self, image)
      out == ModelPredict(self.model, processed_image.tensor, env.predictions)
      category_id == NpArgmax(out.predictions)
  IN  IF processed_image.raised
        THEN [raised |-> TRUE, error |-> "RuntimeError", category_id |-> -1,
              confidence |-> 0, predictions |-> <<>>, preprocess_calls |-> 1, infer_calls |-> 0]
      ELSE IF out.raised
        THEN [raised |-> TRUE, error |-> out.error, category_id |-> -1,
              confidence |-> 0, predictions |-> <<>>, preprocess_calls |-> 1, infer_calls |-> 1]
      ELSE [raised |-> FALSE, error |-> "", category_id |-> category_id,
            confidence |-> Times100(out.predictions[category_id + 1]),
            predictions |-> out.predictions, preprocess_calls |-> 1, infer_calls |-> 1]

\* The branch `if self.model_loaded and self.model is not None` of predict.
PredictLoaded(self, image, env) ==
  LET processed_image == preprocess_image(self, image)
      out == ModelPredict(self.model, processed_image.tensor, env.predictions)
      category_id == NpArgmax(out.predictions)
  IN  IF processed_image.raised
        THEN [raised |-> TRUE, error |-> processed_image.error, category_id |-> -1,
              confidence |-> 0, predictions |-> <<>>, preprocess_calls |-> 1, infer_calls |-> 0]
      ELSE IF out.raised
        THEN [raised |-> TRUE, error |-> out.error, category_id |-> -1,
              confidence |-> 0, predictions |-> <<>>, preprocess_calls |-> 1, infer_calls |-> 1]
      ELSE [raised |-> FALSE, error |-> "", category_id |-> category_id,
            confidence |-> Times100(out.predictions[category_id + 1]),
            predictions |-> out.predictions, preprocess_calls |-> 1, infer_calls |-> 1]

\* Variant of PredictDemo: the draw is taken as a fraction, not as a percentage.
PredictDemoFraction(self, image, env) ==
  [raised |-> FALSE, error |-> "", category_id |-> env.randint,
   confidence |-> env.uniform \div 100, predictions |-> <<>>,
   preprocess_calls |-> 0, infer_calls |-> 0]

\* Variant of PredictDemo: the file is opened and preprocessed before the
\* draws, so a file that does not decode raises.
PredictDemoValidating(self, image, env) ==
  LET processed_image == preprocess_image(self, image)
  IN  IF processed_image.raised
        THEN [raised |-> TRUE, error |-> processed_image.error, category_id |-> -1,
              confidence |-> 0, predictions |-> <<>>, preprocess_calls |-> 1, infer_calls |-> 0]
        ELSE [raised |-> FALSE, error |-> "", category_id |-> env.randint,
              confidence |-> env.uniform, predictions |-> <<>>,
              preprocess_calls |-> 1, infer_calls |-> 0]

\* The else branch of predict: np.random.randint and np.random.uniform.
PredictDemo(self, image, env) ==
  [raised |-> FALSE, error |-> "", category_id |-> env.randint,
   confidence |-> env.uniform, predictions |-> <<>>,
   preprocess_calls |-> 0, infer_calls |-> 0]

\* category_info = self.WASTE_CATEGORIES[category_id]: a dict lookup, which
\* raises KeyError for a key the dict does not hold.
NoCategory == [name |-> "", type |-> "", tip |-> "", co2 |-> 0, color |-> "", icon |-> ""]

CategoryInfo(self, category_id) ==
  IF category_id \in DOMAIN self.WASTE_CATEGORIES
    THEN [raised |-> FALSE, error |-> "", info |-> self.WASTE_CATEGORIES[category_id]]
    ELSE [raised |-> TRUE, error |-> "KeyError", info |-> NoCategory]

\* Variant of BuildResult: the dict is built without its 'icon' entry.
BuildResultWithoutIcon(self, category_id, confidence) ==
  LET category_info == CategoryInfo(self, category_id).info
  IN  [item |-> category_info.name,
       category |-> category_info.type,
       confidence |-> PyRound1(confidence),
       tip |-> category_info.tip,
       co2 |-> category_info.co2,
       color |-> category_info.color,
       category_id |-> category_id]

\* Variant of BuildResult: 'category' is filled from the entry's name.
BuildResultNamedCategory(self, category_id, confidence) ==
  LET category_info == CategoryInfo(self, category_id).info
  IN  [item |-> category_info.name,
       category |-> category_info.name,
       confidence |-> PyRound1(confidence),
       tip |-> category_info.tip,
       co2 |-> category_info.co2,
       color |-> category_info.color,
       icon |-> category_info.icon,
       category_id |-> category_id]

\* The result dict of predict.
BuildResult(self, category_id, confidence) ==
  LET category_info == CategoryInfo(self, category_id).info
  IN  [item |-> category_info.name,
       category |-> category_info.type,
       confidence |-> PyRound1(confidence),
       tip |-> category_info.tip,
       co2 |-> category_info.co2,
       color |-> category_info.color,
       icon |-> category_info.icon,
       category_id |-> category_id]

\* Variant of predict: the category is looked up with a default entry, so an
\* index outside the taxonomy does not raise.
PredictDefaulting(self, image, env) ==
  LET b == IF self.model_loaded /\ self.model # NoModel
             THEN PredictLoaded(self, image, env)
             ELSE PredictDemo(self, image, env)
  IN  IF b.raised
        THEN Raise(b.error, b.predictions, b.preprocess_calls, b.infer_calls)
      ELSE IF CategoryInfo(self, b.category_id).raised
        THEN Return([NoResult EXCEPT !.confidence = PyRound1(b.confidence),
                                     !.category_id = b.category_id],
                    b.predictions, b.preprocess_calls, b.infer_calls)
      ELSE Return(BuildResult(self, b.category_id, b.confidence), b.predictions,
                  b.preprocess_calls, b.infer_calls)

\* WastePredictor.predict
predict(self, image, env) ==
  LET b == IF self.model_loaded /\ self.model # NoModel
             THEN PredictLoaded(self, image, env)
             ELSE PredictDemo(self, image, env)
  IN  IF b.raised
        THEN Raise(b.error, b.predictions, b.preprocess_calls, b.infer_calls)
      ELSE IF CategoryInfo(self, b.category_id).raised
        THEN Raise(CategoryInfo(self, b.category_id).error, b.predictions, b.preprocess_calls, b.infer_calls)
      ELSE Return(BuildResult(self, b.category_id, b.confidence), b.predictions,
                  b.preprocess_calls, b.infer_calls)

\* Variant of BatchFrom: each result is put at the front of the list.
RECURSIVE BatchFromPrepending(_, _, _, _, _)
BatchFromPrepending(self, image_paths, envs, i, outs) ==
  IF i > Len(image_paths)
    THEN [raised |-> FALSE, error |-> "", outs |-> outs,
          results |-> [k \in 1..Len(outs) |-> outs[k].result]]
    ELSE LET o == predict(self, image_paths[i], envs[i])
         IN  IF o.raised
               THEN [raised |-> TRUE, error |-> o.error, outs |-> <<o>> \o outs,
                     results |-> <<>>]
               ELSE BatchFromPrepending(self, image_paths, envs, i + 1, <<o>> \o outs)

\* Variant of BatchFrom: a path on which predict raises is skipped, and the
\* results of the other paths are returned.
RECURSIVE BatchFromSkipping(_, _, _, _, _)
BatchFromSkipping(self, image_paths, envs, i, outs) ==
  IF i > Len(image_paths)
    THEN [raised |-> FALSE, error |-> "", outs |-> outs,
          results |-> LET ok == SelectSeq(outs, LAMBDA o : ~o.raised)
                      IN  [k \in 1..Len(ok) |-> ok[k].result]]
    ELSE BatchFromSkipping(self, image_paths, envs, i + 1,
                           Append(outs, predict(self, image_paths[i], envs[i])))

\* WastePredictor.predict_batch: the list comprehension calls predict on the
\* paths in order, one env per call; the first exception ends it.  `outs` are
\* the calls made, `results` the list returned (empty when it raised).
RECURSIVE BatchFrom(_, _, _, _, _)
BatchFrom(self, image_paths, envs, i, outs) ==
  IF i > Len(image_paths)
    THEN [raised |-> FALSE, error |-> "", outs |-> outs,
          results |-> [k \in 1..Len(outs) |-> outs[k].result]]
    ELSE LET o == predict(self, image_paths[i], envs[i])
         IN  IF o.raised
               THEN [raised |-> TRUE, error |-> o.error, outs |-> Append(outs, o),
                     results |-> <<>>]
               ELSE BatchFrom(self, image_paths, envs, i + 1, Append(outs, o))

predict_batch(self, image_paths, envs) == BatchFrom(self, image_paths, envs, 1, <<>>)

\* ----------------------------------------------------- external outcomes
\* The values the random generator and the inference runtime hand to one
\* call of predict.
NullEnv == [randint |-> 0, uniform |-> 0, predictions |-> <<>>]

\* Variant of RandintDraws: np.random.randint(0, len(self.WASTE_CATEGORIES) - 1),
\* as if the upper end were inclusive.
RandintDrawsShort(self) == 0..(Cardinality(DOMAIN self.WASTE_CATEGORIES) - 2)

\* np.random.randint(0, len(self.WASTE_CATEGORIES)): low inclusive, high exclusive.
RandintDraws(self) == 0..(Cardinality(DOMAIN self.WASTE_CATEGORIES) - 1)

\* np.random.uniform(85, 99): samples of [85, 99), and 99 itself, which
\* floating-point rounding of low + (high - low) * u can produce.
UniformDraws ==
  { UniformLow * Scale + k * DrawStep :
      k \in 0..(((UniformHigh - UniformLow) * Scale - 1) \div DrawStep) }
  \cup {UniformHigh * Scale - 1, UniformHigh * Scale}

DemoEnvs(self) ==
  { [randint |-> r, uniform |-> u, predictions |-> <<>>] :
      r \in RandintDraws(self), u \in UniformDraws }

\* Probability rows: a high value at one or two places and a low value
\* elsewhere, for each <<high, low>> pair; two places holding the high value
\* tie for the maximum.
ProbPairs == { <<0, 0>>, <<2547, 1200>>, <<9996, 1>>, <<Scale, 0>> }

PeakSets(n) == { {i, j} : i \in 1..n, j \in 1..n }

Outputs(n) ==
  { [i \in 1..n |-> IF i \in s THEN p[1] ELSE p[2]] : s \in PeakSets(n), p \in ProbPairs }

LoadedEnvs(self) ==
  { [randint |-> 0, uniform |-> 0, predictions |-> v] : v \in Outputs(self.model.classes) }

IsLoaded(self) == self.model_loaded /\ self.model # NoModel

\* Whether a call of predict on `image` gets as far as asking the runtime
\* for probabilities.
ReachesInference(self, image) ==
  /\ IsLoaded(self)
  /\ ~preprocess_image(self, image).raised
  /\ ~ModelPredict(self.model, preprocess_image(self, image).tensor, <<>>).raised

\* The outcomes one call of predict on `image` can draw.
EnvsFor(self, image) ==
  IF ReachesInference(self, image) THEN LoadedEnvs(self)
  ELSE IF IsLoaded(self) THEN {NullEnv}
  ELSE DemoEnvs(self)

\* The images handed to predict directly.
PredictImages ==
  { ImageFile("RGB", 640, 480), ImageFile("RGBA", 32, 32), ImageFile("L", 224, 224),
    GarbageImage, TruncatedImage, AbsentImage }

\* The fewer images and outcomes drawn where one step makes several calls
\* or runs beside the upload folder.
SampledImages == { ImageFile("RGB", 640, 480), GarbageImage }

SampledEnvsFor(self, image) ==
  IF ReachesInference(self, image)
    THEN { [randint |-> 0, uniform |-> 0,
            predictions |-> [i \in 1..self.model.classes |-> IF i = p THEN 9996 ELSE 1]] :
              p \in {1, self.model.classes} }
  ELSE IF IsLoaded(self) THEN {NullEnv}
  ELSE IF image.state = "image"
    THEN { [randint |-> 0, uniform |-> UniformLow * Scale, predictions |-> <<>>],
           [randint |-> NumCategories - 1, uniform |-> UniformHigh * Scale - 1,
            predictions |-> <<>>] }
  ELSE { [randint |-> 3, uniform |-> UniformLow * Scale + DrawStep, predictions |-> <<>>] }

ZeroStats == [total |-> 0, valid |-> 0, corrupted |-> 0, too_small |-> 0, too_large |-> 0,
              wrong_format |-> 0]

NoClean == [todo |-> <<>>, stats |-> ZeroStats, output |-> {}, counted |-> {}]

NoSplit == [data_dir |-> <<>>, shuffled |-> <<>>, train_ratio |-> 0, val_ratio |-> 0,
            test_ratio |-> 0, lists |-> <<>>, copied |-> {}]

\* ------------------------------------------------------ the last call
NoOut == Return(NoResult, <<>>, 0, 0)
NoPre == [raised |-> FALSE, error |-> "", tensor |-> NoTensor]
NoBatch == [paths |-> <<>>, envs |-> <<>>, raised |-> FALSE, error |-> "", outs |-> <<>>, results |-> <<>>]
NoRequest == [method |-> "", has_image |-> FALSE, filename |-> <<>>, content |-> AbsentImage]
NoResponse == [status |-> 0, error |-> "", success |-> FALSE, data |-> NoResult,
               model_loaded |-> FALSE, categories |-> 0,
               saved |-> <<>>, predict_calls |-> 0, out |-> NoOut,
               remove_calls |-> 0, remove_failed |-> FALSE, unlinked |-> {}]

NoCall == [op |-> "none", image |-> AbsentImage, out |-> NoOut, pre |-> NoPre,
           batch |-> NoBatch, request |-> NoRequest, response |-> NoResponse,
           filename |-> <<>>, allowed |-> FALSE, split |-> NoSplit, clean |-> NoClean]

\* No request is being handled.
NoRequests == <<>>

\* ------------------------------------------------------------------ Init
Init ==
  /\ pc = "import"
  /\ \E e \in StartEnvs : tf_available = e[1] /\ model_file = e[2]
  /\ waste_categories = WASTE_CATEGORIES
  /\ inflight = NoRequests
  /\ model = NoModel
  /\ model_loaded = FALSE
  /\ img_size = 0
  /\ load_calls = 0
  /\ uploads = {}
  /\ last = NoCall

\* predictor = WastePredictor(model_path=app.config['MODEL_PATH'])
Construct ==
  /\ pc = "import"
  /\ LET r == WastePredictorInit(model_file, tf_available)
     IN  /\ pc' = IF r.raised THEN "failed" ELSE "ready"
         /\ model' = r.model
         /\ model_loaded' = r.model_loaded
         /\ img_size' = r.img_size
         /\ load_calls' = load_calls + r.load_calls
  /\ last' = [NoCall EXCEPT !.op = "init"]
  /\ UNCHANGED <<tf_available, model_file, waste_categories, inflight, uploads>>

\* A caller invokes predictor.predict(image_path).
Predict ==
  /\ pc = "ready"
  /\ \E image \in PredictImages : \E env \in EnvsFor(Self, image) :
       last' = [NoCall EXCEPT !.op = "predict", !.image = image,
                              !.out = predict(Self, image, env)]
  /\ UNCHANGED <<pc, tf_available, model_file, waste_categories, inflight, model, model_loaded, img_size,
                 load_calls, uploads>>

\* A caller invokes predictor.preprocess_image(image_path).
PreprocessImage ==
  /\ pc = "ready"
  /\ \E image \in Images :
       last' = [NoCall EXCEPT !.op = "preprocess_image", !.image = image,
                              !.pre = preprocess_image(Self, image)]
  /\ UNCHANGED <<pc, tf_available, model_file, waste_categories, inflight, model, model_loaded, img_size,
                 load_calls, uploads>>

\* A caller invokes predictor.predict_batch(image_paths).
PredictBatch ==
  /\ pc = "ready"
  /\ \E n \in 0..MaxBatch : \E ps \in [1..n -> SampledImages] :
     \E es \in [1..n -> UNION { SampledEnvsFor(Self, im) : im \in SampledImages }] :
       /\ \A k \in 1..n : es[k] \in SampledEnvsFor(Self, ps[k])
       /\ last' = [NoCall EXCEPT !.op = "predict_batch",
                     !.batch = [paths |-> ps, envs |-> es] @@ predict_batch(Self, ps, es)]
  /\ UNCHANGED <<pc, tf_available, model_file, waste_categories, inflight, model, model_loaded, img_size,
                 load_calls, uploads>>

\* ------------------------------------------------------------ file names
\* File names are sequences of one-character strings.
LowerOf(c) ==
  CASE c = "P" -> "p" [] c = "N" -> "n" [] c = "G" -> "g"
    [] c = "J" -> "j" [] c = "E" -> "e" [] c = "I" -> "i"
    [] c = "F" -> "f" [] c = "W" -> "w" [] c = "B" -> "b" [] OTHER -> c

\* str.lower()
Lower(s) == [i \in 1..Len(s) |-> LowerOf(s[i])]

\* Config.ALLOWED_EXTENSIONS, the default 'png,jpg,jpeg,gif,webp'.
ALLOWED_EXTENSIONS ==
  { <<"p", "n", "g">>, <<"j", "p", "g">>, <<"j", "p", "e", "g">>,
    <<"g", "i", "f">>, <<"w", "e", "b", "p">> }

\* The index of the last '.' of s, 0 when it has none.
RECURSIVE LastDot(_, _)
LastDot(s, i) ==
  IF i = 0 THEN 0 ELSE IF s[i] = "." THEN i ELSE LastDot(s, i - 1)

\* Variant of allowed_file: the extension is compared as it is written.
AllowedFileCaseSensitive(filename) ==
  LET d == LastDot(filename, Len(filename))
  IN  /\ d > 0
      /\ SubSeq(filename, d + 1, Len(filename)) \in ALLOWED_EXTENSIONS

\* allowed_file: '.' in filename and filename.rsplit('.', 1)[1].lower() in the set.
allowed_file(filename) ==
  LET d == LastDot(filename, Len(filename))
  IN  /\ d > 0
      /\ Lower(SubSeq(filename, d + 1, Len(filename))) \in ALLOWED_EXTENSIONS

\* The file names allowed_file is tried on: every name of up to MaxName
\* characters over a small alphabet, and names with each allowed extension in
\* lower, upper and mixed case, doubled, cut short or written after a stem
\* without a dot.
NameAlphabet == {".", "p", "n", "g", "G"}

NamesUpTo(n) == UNION { [1..k -> NameAlphabet] : k \in 0..n }

LongerNames ==
  { <<"a", ".", "j", "p", "g">>, <<"a", ".", "J", "P", "G">>, <<"a", ".", "j", "p", "e", "g">>,
    <<"a", ".", "J", "p", "E", "g">>, <<"a", ".", "g", "i", "f">>, <<"a", ".", "G", "I", "F">>,
    <<"a", ".", "w", "e", "b", "p">>, <<"a", ".", "W", "e", "b", "P">>,
    <<"a", ".", "j", "p">>, <<"a", ".", "j", "p", "g", "x">>, <<"a", "j", "p", "g">>,
    <<"a", ".", "t", "x", "t">>, <<"a", ".", "p", "n", "g", ".", "t", "x", "t">>,
    <<"a", ".", "t", "x", "t", ".", "P", "N", "G">>, <<"b", "/", "c", ".", "P", "N", "G">>,
    <<"w", "e", "b", "p", ".">> }

NameInputs == NamesUpTo(MaxName) \cup LongerNames

\* A caller invokes allowed_file(filename); the function needs no predictor
\* and keeps no state, so one call per behaviour shows all it does.
AllowedFile ==
  /\ last = NoCall
  /\ \E filename \in NameInputs :
       last' = [NoCall EXCEPT !.op = "allowed_file", !.filename = filename,
                              !.allowed = allowed_file(filename)]
  /\ UNCHANGED <<pc, tf_available, model_file, waste_categories, inflight, model, model_loaded,
                 img_size, load_calls, uploads>>

NextFile == AllowedFile

SpecFile == Init /\ [][NextFile]_vars

\* ------------------------------- model-training/scripts/preprocess_data.py
\* File names are sequences of characters, as for allowed_file.  ImageFiles
\* are names split_dataset lists, in the order they are added to a class
\* directory as MaxImages grows; OtherFiles are names it passes over.
ImageFiles ==
  << <<"a", ".", "j", "p", "g">>, <<"b", ".", "P", "N", "G">>,
     <<"c", ".", "j", "p", "e", "g">>, <<"d", ".", "p", "n", "g">>,
     <<"e", ".", "J", "p", "g">> >>

BmpFile == <<"f", ".", "b", "m", "p">>
TextFile == <<"n", ".", "t", "x", "t">>

\* str.endswith(suffix)
EndsWith(s, suffix) ==
  /\ Len(s) >= Len(suffix)
  /\ SubSeq(s, Len(s) - Len(suffix) + 1, Len(s)) = suffix

\* The suffixes of the listing of split_dataset: ('.jpg', '.jpeg', '.png').
SplitSuffixes ==
  { <<".", "j", "p", "g">>, <<".", "j", "p", "e", "g">>, <<".", "p", "n", "g">> }

\* [f for f in os.listdir(class_path) if f.lower().endswith(suffixes)]
ListedImages(files, suffixes) ==
  { f \in files : \E suffix \in suffixes : EndsWith(Lower(f), suffix) }

\* Ratios are tenths: the ratio 0.7 is 7.  The command line takes any float,
\* so a ratio may be negative or more than one.
RatioDen == 10

Ratios == {-5, 2, 5, 7, 12}

TestRatios == {1, 5}

\* int(len(images) * ratio): the product cut toward zero.
IntOfProduct(n, ratio) ==
  IF n * ratio >= 0 THEN (n * ratio) \div RatioDen
                    ELSE -((-(n * ratio)) \div RatioDen)

\* A slice bound of a list of n items: a negative bound counts from the
\* end, and a bound beyond either end is the end.
SliceBound(i, n) ==
  IF i < 0 THEN (IF i + n < 0 THEN 0 ELSE i + n)
           ELSE (IF i > n THEN n ELSE i)

\* images[lo:hi]
Slice(images, lo, hi) ==
  LET a == SliceBound(lo, Len(images))
      b == SliceBound(hi, Len(images))
  IN  IF a < b THEN SubSeq(images, a + 1, b) ELSE <<>>

\* Variant of SplitImages: the test set has int(len(images) * test_ratio) images.
SplitImagesByTestRatio(images, train_ratio, val_ratio, test_ratio) ==
  LET n_train == IntOfProduct(Len(images), train_ratio)
      n_val == IntOfProduct(Len(images), val_ratio)
      n_test == IntOfProduct(Len(images), test_ratio)
  IN  [train |-> Slice(images, 0, n_train),
       val |-> Slice(images, n_train, n_train + n_val),
       test |-> Slice(images, n_train + n_val, n_train + n_val + n_test)]

\* The three lists split_dataset cuts the shuffled images of a class into.
SplitImages(images, train_ratio, val_ratio, test_ratio) ==
  LET n_train == IntOfProduct(Len(images), train_ratio)
      n_val == IntOfProduct(Len(images), val_ratio)
  IN  [train |-> Slice(images, 0, n_train),
       val |-> Slice(images, n_train, n_train + n_val),
       test |-> Slice(images, n_train + n_val, Len(images))]

SplitNames == {"train", "val", "test"}

\* The entries of data_dir that are directories.
ClassDirs(data_dir) == { c \in DOMAIN data_dir : data_dir[c].is_dir }

\* split_dataset: every class directory is listed, shuffled and cut;
\* shuffled[c] is the order np.random.shuffle leaves the images of class c
\* in.  The result holds the lists of each class and the destination
\* <<split, class_name, img>> of every copy made.
split_dataset(data_dir, shuffled, train_ratio, val_ratio, test_ratio) ==
  LET lists == [c \in ClassDirs(data_dir) |->
                  SplitImages(shuffled[c], train_ratio, val_ratio, test_ratio)]
  IN  [lists |-> lists,
       copied |-> { d \in SplitNames \X ClassDirs(data_dir) \X
                            { ImageFiles[k] : k \in 1..Len(ImageFiles) } :
                      \E i \in 1..Len(lists[d[2]][d[1]]) : lists[d[2]][d[1]][i] = d[3] }]

\* The orders a shuffle can leave a set of names in.
Orders(names) ==
  { order \in [1..Cardinality(names) -> names] :
      \A i, j \in 1..Cardinality(names) : i # j => order[i] # order[j] }

\* The source directories split_dataset is run on: the class directories
\* glass and metal and a file beside them.  glass holds any of the first
\* MaxImages image files and possibly a bitmap, metal possibly an image of
\* the same name as one of glass and possibly a text file.
Directory(files) == [is_dir |-> TRUE, files |-> files]
RegularFile == [is_dir |-> FALSE, files |-> {}]

DataDirs ==
  { [glass |-> Directory(g), metal |-> Directory(m), readme |-> RegularFile] :
      g \in SUBSET ({ ImageFiles[k] : k \in 1..MaxImages } \cup {BmpFile}),
      m \in SUBSET {ImageFiles[1], TextFile} }

\* The scripts of model-training run without the backend: the predictor's
\* variables stay as the import leaves them, in one environment.
InitScripts ==
  /\ Init
  /\ tf_available = FALSE
  /\ model_file = NoPath

\* split_dataset(data_dir, output_dir, train_ratio, val_ratio, test_ratio)
\* into an empty output directory.
SplitDataset ==
  /\ last = NoCall
  /\ \E data_dir \in DataDirs, train_ratio \in Ratios, val_ratio \in Ratios,
        test_ratio \in TestRatios :
     \E glass \in Orders(ListedImages(data_dir.glass.files, SplitSuffixes)),
        metal \in Orders(ListedImages(data_dir.metal.files, SplitSuffixes)) :
       LET shuffled == [glass |-> glass, metal |-> metal]
           done == split_dataset(data_dir, shuffled, train_ratio, val_ratio, test_ratio)
       IN  last' = [NoCall EXCEPT !.op = "split_dataset",
                      !.split = [data_dir |-> data_dir, shuffled |-> shuffled,
                                 train_ratio |-> train_ratio, val_ratio |-> val_ratio,
                                 test_ratio |-> test_ratio,
                                 lists |-> done.lists, copied |-> done.copied]]
  /\ UNCHANGED <<pc, tf_available, model_file, waste_categories, inflight, model, model_loaded,
                 img_size, load_calls, uploads>>

NextSplit == SplitDataset

SpecSplit == InitScripts /\ [][NextSplit]_vars

\* The defaults of clean_dataset's min_size and max_size.
min_size == 32
max_size == 4096

\* The suffixes of the listing of clean_dataset: ('.jpg', '.jpeg', '.png', '.bmp').
CleanSuffixes == SplitSuffixes \cup { <<".", "b", "m", "p">> }

\* The files clean_dataset meets.  decodes says whether Image.open, verify
\* and load go through; the sizes lie on both sides of min_size and max_size,
\* one of them too small one way and too large the other.
FileSizes == { <<31, 100>>, <<32, 32>>, <<32, 4096>>, <<4096, 4097>>, <<31, 4097>> }

FileKinds ==
  { [ext |-> <<".", "t", "x", "t">>, decodes |-> FALSE, size |-> <<0, 0>>, mode |-> ""],
    [ext |-> <<".", "j", "p", "g">>, decodes |-> FALSE, size |-> <<0, 0>>, mode |-> ""] }
  \cup { [ext |-> <<".", "j", "p", "g">>, decodes |-> TRUE, size |-> size, mode |-> "RGB"] :
            size \in FileSizes }
  \cup { [ext |-> <<".", "P", "N", "G">>, decodes |-> TRUE, size |-> size, mode |-> "P"] :
            size \in FileSizes }

Stems == <<"a", "b", "c", "d">>

\* The directories clean_dataset is run on: up to MaxFiles files, the first
\* few in class glass and the others in class metal, in the order the two
\* loops meet them.
CleanEntry(i, in_glass, file) ==
  [class_name |-> IF i <= in_glass THEN "glass" ELSE "metal",
   img_name |-> <<Stems[i]>> \o file.ext,
   file |-> file]

CleanDirs ==
  UNION { { [i \in 1..n |-> CleanEntry(i, in_glass, files[i])] :
              files \in [1..n -> FileKinds], in_glass \in 0..n } : n \in 0..MaxFiles }

\* validate_image: True when the image opens, verifies and loads.
validate_image(file) == file.decodes

\* Where an exception is raised inside the try block of the loop body, if
\* anywhere: by Image.open, by convert, or by save, which raises either
\* before it has opened the output file or after it has opened it for
\* writing; in the latter case the file is left behind when it was there
\* before or when Pillow does not remove what it created.
Faults == {"none", "open", "convert", "save", "save_after_open"}

Smaller(a, b) == IF a < b THEN a ELSE b
Larger(a, b) == IF a > b THEN a ELSE b

\* The bucket the loop body counts an image in.
Bucket(file, fault) ==
  IF ~validate_image(file) THEN "corrupted"
  ELSE IF fault = "open" THEN "wrong_format"
  ELSE IF Smaller(file.size[1], file.size[2]) < min_size THEN "too_small"
  ELSE IF Larger(file.size[1], file.size[2]) > max_size THEN "too_large"
  ELSE IF file.mode # "RGB" /\ fault = "convert" THEN "wrong_format"
  ELSE IF fault \in {"save", "save_after_open"} THEN "wrong_format"
  ELSE "valid"

\* Whether the loop body reaches img.save and save opens the output file.
OpensOutput(file, fault) ==
  /\ validate_image(file)
  /\ fault # "open"
  /\ Smaller(file.size[1], file.size[2]) >= min_size
  /\ Larger(file.size[1], file.size[2]) <= max_size
  /\ ~(file.mode # "RGB" /\ fault = "convert")
  /\ fault # "save"

\* One turn of the loop over the images of a class: the image is counted
\* in total and in one bucket, and saved when nothing stops it.
clean_image(job, fault) ==
  LET entry == Head(job.todo)
      bucket == Bucket(entry.file, fault)
  IN  [todo |-> Tail(job.todo),
       stats |-> [job.stats EXCEPT ![bucket] = @ + 1, !.total = @ + 1],
       output |-> IF OpensOutput(entry.file, fault)
                    THEN job.output \cup {[class_name |-> entry.class_name,
                                           img_name |-> entry.img_name,
                                           complete |-> fault # "save_after_open"]}
                    ELSE job.output,
       counted |-> job.counted \cup {[class_name |-> entry.class_name,
                                      img_name |-> entry.img_name, bucket |-> bucket]}]

IsListed(entry) == \E suffix \in CleanSuffixes : EndsWith(Lower(entry.img_name), suffix)

\* clean_dataset(data_dir, output_dir) up to its loops: the counters are
\* zero, the output directory is empty and the listed images wait.
CleanDataset ==
  /\ last = NoCall
  /\ \E data_dir \in CleanDirs :
       last' = [NoCall EXCEPT !.op = "clean_dataset",
                              !.clean = [NoClean EXCEPT !.todo = SelectSeq(data_dir, IsListed)]]
  /\ UNCHANGED <<pc, tf_available, model_file, waste_categories, inflight, model, model_loaded,
                 img_size, load_calls, uploads>>

\* The loop body runs on the next image.
CleanImage ==
  /\ last.op = "clean_dataset"
  /\ last.clean.todo # <<>>
  /\ \E fault \in Faults : last' = [last EXCEPT !.clean = clean_image(last.clean, fault)]
  /\ UNCHANGED <<pc, tf_available, model_file, waste_categories, inflight, model, model_loaded,
                 img_size, load_calls, uploads>>

NextClean == CleanDataset \/ CleanImage

SpecClean == InitScripts /\ [][NextClean]_vars

\* werkzeug's secure_filename on ASCII names: path separators become blanks,
\* runs of blanks become one '_' (none at the ends), characters outside
\* [A-Za-z0-9_.-] are dropped, and '.' and '_' are stripped from both ends.
SafeChars ==
  { "a", "b", "c", "e", "f", "g", "i", "j", "n", "p", "t", "w", "x",
    "G", "N", "P", "1", "2", "3", "4", "_", ".", "-" }

RECURSIVE JoinBlanks(_, _, _)
JoinBlanks(s, i, acc) ==
  IF i > Len(s) THEN acc
  ELSE IF s[i] \in {" ", "/"}
    THEN JoinBlanks(s, i + 1, acc)
  ELSE IF i > 1 /\ s[i - 1] \in {" ", "/"} /\ acc # <<>>
    THEN JoinBlanks(s, i + 1, acc \o <<"_", s[i]>>)
  ELSE JoinBlanks(s, i + 1, Append(acc, s[i]))

RECURSIVE StripEnds(_)
StripEnds(s) ==
  IF s = <<>> THEN s
  ELSE IF s[1] \in {".", "_"} THEN StripEnds(Tail(s))
  ELSE IF s[Len(s)] \in {".", "_"} THEN StripEnds(SubSeq(s, 1, Len(s) - 1))
  ELSE s

secure_filename(s) ==
  StripEnds(SelectSeq(JoinBlanks(s, 1, <<>>), LAMBDA c : c \in SafeChars))

\* str(datetime.now().timestamp()) at the t-th instant: instants are told
\* apart by one digit.
Timestamp(t) == << <<"1", "2", "3", "4">>[t] >>

\* ---------------------------------------------------------- upload folder
\* A file of UPLOAD_FOLDER: its name, the instant it was saved at and its age
\* in seconds.  Ages beyond the limit are all alike and are kept at limit + 1.
MAX_AGE_SECONDS == 3600

UploadedFile(name, t) == [name |-> name, ts |-> t, age |-> 0]

\* The instant a request is handled at.  Requests are handled one after the
\* other, so it differs from the instant of every file in the folder; instants
\* are only compared for equality (ages order the files), so it is the first
\* one no file carries.
NextInstant(files) ==
  CHOOSE t \in 1..(Cardinality(files) + 1) :
    /\ t \notin {f.ts : f \in files}
    /\ \A u \in 1..(t - 1) : u \in {f.ts : f \in files}

\* Variant of OldFiles: a file is old from the full hour on.
OldFilesFromTheHour(files) == { f \in files : f.age >= MAX_AGE_SECONDS }

OldFiles(files) == { f \in files : f.age > MAX_AGE_SECONDS }

\* cleanup_old_files: unlink every file older than an hour; an exception on
\* the way is logged and swallowed, and then only `deleted`, the old files
\* unlinked before it, are gone.
cleanup_old_files(files, deleted) == files \ (OldFiles(files) \cap deleted)

\* ------------------------------------------------------------- handlers
Response(status, error) == [NoResponse EXCEPT !.status = status, !.error = error]

\* Variant of AnalyzePost: the upload is saved before its name is tested
\* against the allowed extensions.
AnalyzePostSavingFirst(self, files, req, deleted, env, remove_ok) ==
  LET cleaned  == cleanup_old_files(files, deleted)
      filename == secure_filename(Timestamp(NextInstant(cleaned)) \o <<"_">> \o req.filename)
      saved    == UploadedFile(filename, NextInstant(cleaned))
      stored   == { f \in cleaned : f.name # filename } \cup {saved}
      out      == predict(self, req.content, env)
  IN  IF ~req.has_image
        THEN [uploads |-> cleaned, response |-> Response(400, "No image provided")]
      ELSE IF req.filename = <<>>
        THEN [uploads |-> cleaned, response |-> Response(400, "No file selected")]
      ELSE IF ~allowed_file(req.filename)
        THEN [uploads |-> stored, response |-> Response(400, "Invalid file type")]
      ELSE IF out.raised
        THEN [uploads |-> stored,
              response |-> [Response(500, "Internal server error") EXCEPT
                              !.saved = filename, !.predict_calls = 1, !.out = out]]
      ELSE [uploads |-> IF remove_ok THEN stored \ {saved} ELSE stored,
            response |-> [Response(200, "") EXCEPT
                            !.success = TRUE, !.data = out.result,
                            !.saved = filename, !.predict_calls = 1, !.out = out,
                            !.remove_calls = 1, !.remove_failed = ~remove_ok]]

\* analyze_image, from the try block on.  `deleted` and `remove_ok` are the
\* outcomes of the unlink calls, `env` what predict draws.
AnalyzePost(self, files, req, deleted, env, remove_ok) ==
  LET cleaned  == cleanup_old_files(files, deleted)
      filename == secure_filename(Timestamp(NextInstant(cleaned)) \o <<"_">> \o req.filename)
      saved    == UploadedFile(filename, NextInstant(cleaned))
      \* file.save(filepath) replaces a file of the same name
      stored   == { f \in cleaned : f.name # filename } \cup {saved}
      out      == predict(self, req.content, env)
  IN  IF ~req.has_image
        THEN [uploads |-> cleaned, response |-> Response(400, "No image provided")]
      ELSE IF req.filename = <<>>
        THEN [uploads |-> cleaned, response |-> Response(400, "No file selected")]
      ELSE IF ~allowed_file(req.filename)
        THEN [uploads |-> cleaned, response |-> Response(400, "Invalid file type")]
      ELSE IF out.raised
        THEN [uploads |-> stored,
              response |-> [Response(500, "Internal server error") EXCEPT
                              !.saved = filename, !.predict_calls = 1, !.out = out]]
      ELSE [uploads |-> IF remove_ok THEN stored \ {saved} ELSE stored,
            response |-> [Response(200, "") EXCEPT
                            !.success = TRUE, !.data = out.result,
                            !.saved = filename, !.predict_calls = 1, !.out = out,
                            !.remove_calls = 1, !.remove_failed = ~remove_ok]]

\* analyze_image
analyze_image(self, files, req, deleted, env, remove_ok) ==
  IF req.method = "OPTIONS"
    THEN [uploads |-> files, response |-> Response(204, "")]
    ELSE LET r == AnalyzePost(self, files, req, deleted, env, remove_ok)
         IN  [r EXCEPT !.response.unlinked = files \ cleanup_old_files(files, deleted)]

\* Variant of health: the flag is reported as true whatever the predictor holds.
HealthAlwaysLoaded(self) == [Response(200, "") EXCEPT !.model_loaded = TRUE]

\* health
health(self) == [Response(200, "") EXCEPT !.model_loaded = self.model_loaded]

\* api_stats
api_stats(self) ==
  [Response(200, "") EXCEPT !.model_loaded = self.model_loaded,
                            !.categories = Cardinality(DOMAIN self.WASTE_CATEGORIES)]

\* home
home == Response(200, "")

\* ------------------------------------------------------------- requests
Filenames ==
  { <<>>, <<"a">>, <<"a", ".", "t", "x", "t">>, <<"b", "/", "c", ".", "P", "N", "G">>,
    <<"a", ".">> }

AnalyzeRequests ==
  { [method |-> "OPTIONS", has_image |-> FALSE, filename |-> <<>>, content |-> AbsentImage],
    [method |-> "POST",    has_image |-> FALSE, filename |-> <<>>, content |-> AbsentImage] }
  \cup { [method |-> "POST", has_image |-> TRUE, filename |-> fn, content |-> c] :
           fn \in Filenames, c \in SampledImages }

\* Whether the handler gets as far as calling predict for this request.
CallsPredict(req) ==
  req.method = "POST" /\ req.has_image /\ req.filename # <<>> /\ allowed_file(req.filename)

\* Variant of Analyze: a request that ends in the except block marks the
\* model as not loaded.
AnalyzeDegrading ==
  /\ pc = "ready"
  /\ \E req \in AnalyzeRequests :
     \E deleted \in SUBSET OldFiles(uploads) :
     \E env \in (IF CallsPredict(req) THEN SampledEnvsFor(Self, req.content) ELSE {NullEnv}) :
     \E remove_ok \in (IF CallsPredict(req) THEN BOOLEAN ELSE {TRUE}) :
       LET r == analyze_image(Self, uploads, req, deleted, env, remove_ok)
       IN  /\ Cardinality(r.uploads) <= MaxUploads
           /\ uploads' = r.uploads
           /\ model_loaded' = IF r.response.status = 500 THEN FALSE ELSE model_loaded
           /\ last' = [NoCall EXCEPT !.op = "analyze", !.request = req,
                                     !.response = r.response]
  /\ UNCHANGED <<pc, tf_available, model_file, waste_categories, inflight, model, img_size, load_calls>>

\* POST or OPTIONS /api/analyze
Analyze ==
  /\ pc = "ready"
  /\ \E req \in AnalyzeRequests :
     \E deleted \in SUBSET OldFiles(uploads) :
     \E env \in (IF CallsPredict(req) THEN SampledEnvsFor(Self, req.content) ELSE {NullEnv}) :
     \E remove_ok \in (IF CallsPredict(req) THEN BOOLEAN ELSE {TRUE}) :
       LET r == analyze_image(Self, uploads, req, deleted, env, remove_ok)
       IN  /\ Cardinality(r.uploads) <= MaxUploads
           /\ uploads' = r.uploads
           /\ last' = [NoCall EXCEPT !.op = "analyze", !.request = req,
                                     !.response = r.response]
  /\ UNCHANGED <<pc, tf_available, model_file, waste_categories, inflight, model, model_loaded, img_size, load_calls>>

\* GET /health
Health ==
  /\ pc = "ready"
  /\ last' = [NoCall EXCEPT !.op = "health", !.response = health(Self)]
  /\ UNCHANGED <<pc, tf_available, model_file, waste_categories, inflight, model, model_loaded, img_size,
                 load_calls, uploads>>

\* GET /api/stats
ApiStats ==
  /\ pc = "ready"
  /\ last' = [NoCall EXCEPT !.op = "stats", !.response = api_stats(Self)]
  /\ UNCHANGED <<pc, tf_available, model_file, waste_categories, inflight, model, model_loaded, img_size,
                 load_calls, uploads>>

\* GET /
Home ==
  /\ pc = "ready"
  /\ last' = [NoCall EXCEPT !.op = "home", !.response = home]
  /\ UNCHANGED <<pc, tf_available, model_file, waste_categories, inflight, model, model_loaded, img_size,
                 load_calls, uploads>>

\* Time passes: every file of the upload folder grows older by d seconds.
\* A handler holds its temp file for far less than the hour the steps take,
\* so they are taken while no handler stands between file.save and os.remove.
Tick ==
  /\ pc = "ready"
  /\ uploads # {}
  /\ \A r \in DOMAIN inflight : inflight[r].pc \notin {"predict", "remove"}
  /\ \E d \in {MAX_AGE_SECONDS, MAX_AGE_SECONDS + 1} :
       uploads' = { [f EXCEPT !.age = IF f.age + d > MAX_AGE_SECONDS
                                        THEN MAX_AGE_SECONDS + 1 ELSE f.age + d] :
                    f \in uploads }
  /\ uploads' # uploads
  /\ UNCHANGED <<pc, tf_available, model_file, waste_categories, inflight, model, model_loaded, img_size,
                 load_calls, last>>

\* The paths handed to predict beside the service: an image, a file that is
\* no image, a path to no file.
ServiceImages == SampledImages \cup {AbsentImage}

\* Variant of PredictSampled: the result is the taxonomy entry itself, with
\* the confidence and the index written into it.
PredictSampledInPlace ==
  /\ pc = "ready"
  /\ \E image \in ServiceImages : \E env \in SampledEnvsFor(Self, image) :
       LET out == predict(Self, image, env)
       IN  /\ last' = [NoCall EXCEPT !.op = "predict", !.image = image, !.out = out]
           /\ waste_categories' =
                IF out.raised THEN waste_categories
                ELSE [waste_categories EXCEPT ![out.result.category_id] =
                        [confidence |-> out.result.confidence,
                         category_id |-> out.result.category_id] @@ @]
  /\ UNCHANGED <<pc, tf_available, model_file, inflight, model, model_loaded, img_size,
                 load_calls, uploads>>

\* A caller invokes predictor.predict(image_path) while the service runs.
PredictSampled ==
  /\ pc = "ready"
  /\ \E image \in ServiceImages : \E env \in SampledEnvsFor(Self, image) :
       last' = [NoCall EXCEPT !.op = "predict", !.image = image,
                              !.out = predict(Self, image, env)]
  /\ UNCHANGED <<pc, tf_available, model_file, waste_categories, inflight, model, model_loaded, img_size,
                 load_calls, uploads>>

\* ------------------------------------------------------------------ Spec
\* The predictor on its own: construction and calls of its methods.
Next ==
  \/ Construct
  \/ Predict
  \/ PreprocessImage
  \/ PredictBatch

Spec == Init /\ [][Next]_vars

\* The service: construction, the HTTP handlers, the passing of time, and
\* calls of the predictor's methods beside them.
NextHttp ==
  \/ Construct
  \/ Analyze
  \/ Health
  \/ ApiStats
  \/ Home
  \/ Tick
  \/ PredictSampled
  \/ PreprocessImage
  \/ PredictBatch

SpecHttp == Init /\ [][NextHttp]_vars

\* ------------------------------------------------- requests side by side
\* The server handles each request on a thread of its own, so the steps of
\* analyze_image for two requests interleave.  A request in flight: where its
\* handler stands, the request, the clock value it read, the path it saves
\* to, what its call of predict opened (-1: no file opened, 0: the path led
\* to no file, k: a file holding the bytes of request k) and its status.
InFlight(req) ==
  [pc |-> "cleanup", request |-> req, ts |-> 0, filename |-> <<>>, read |-> -1, status |-> 0]

\* The uploads sent side by side: a file name that is refused and one that is
\* allowed, each with bytes that decode and bytes that do not.
ConcRequests ==
  { req \in AnalyzeRequests :
      /\ req.method = "POST"
      /\ req.has_image
      /\ req.filename \in { <<"a", ".", "t", "x", "t">>, <<"b", "/", "c", ".", "P", "N", "G">> } }

\* datetime.now() for a handler that reads the clock now: the value the last
\* reader got (the clock has not moved since) or the next one.
ClockValues(reqs) ==
  LET taken == { reqs[k].ts : k \in DOMAIN reqs } \ {0}
  IN  IF taken = {} THEN {1}
      ELSE LET m == CHOOSE x \in taken : \A y \in taken : y <= x
           IN  {m, m + 1}

\* The file file.save(filepath) leaves at the path: the bytes of request r.
SavedFile(name, t, r) == [from |-> r] @@ UploadedFile(name, t)

FilesAt(files, name) == { f \in files : f.name = name }

\* Flask hands a request to analyze_image.
AnalyzeArrive ==
  /\ pc = "ready"
  /\ Len(inflight) < MaxInflight
  /\ \E req \in ConcRequests : inflight' = Append(inflight, InFlight(req))
  /\ UNCHANGED <<pc, tf_available, model_file, waste_categories, model, model_loaded,
                 img_size, load_calls, uploads, last>>

\* cleanup_old_files()
AnalyzeCleanup ==
  /\ pc = "ready"
  /\ \E r \in DOMAIN inflight :
       /\ inflight[r].pc = "cleanup"
       /\ \E deleted \in SUBSET OldFiles(uploads) :
            uploads' = cleanup_old_files(uploads, deleted)
       /\ inflight' = [inflight EXCEPT ![r].pc = "validate"]
  /\ UNCHANGED <<pc, tf_available, model_file, waste_categories, model, model_loaded,
                 img_size, load_calls, last>>

\* The three tests of the request, then the file name built from the clock.
AnalyzeValidate ==
  /\ pc = "ready"
  /\ \E r \in DOMAIN inflight :
       /\ inflight[r].pc = "validate"
       /\ IF ~CallsPredict(inflight[r].request)
            THEN inflight' = [inflight EXCEPT ![r].pc = "done", ![r].status = 400]
            ELSE \E t \in ClockValues(inflight) :
                   inflight' =
                     [inflight EXCEPT
                        ![r].pc = "save",
                        ![r].ts = t,
                        ![r].filename =
                          secure_filename(Timestamp(t) \o <<"_">> \o inflight[r].request.filename)]
  /\ UNCHANGED <<pc, tf_available, model_file, waste_categories, model, model_loaded,
                 img_size, load_calls, uploads, last>>

\* file.save(filepath): a file already at the path is replaced.
AnalyzeSave ==
  /\ pc = "ready"
  /\ \E r \in DOMAIN inflight :
       /\ inflight[r].pc = "save"
       /\ uploads' = (uploads \ FilesAt(uploads, inflight[r].filename))
                        \cup {SavedFile(inflight[r].filename, inflight[r].ts, r)}
       /\ inflight' = [inflight EXCEPT ![r].pc = "predict"]
  /\ UNCHANGED <<pc, tf_available, model_file, waste_categories, model, model_loaded,
                 img_size, load_calls, last>>

\* result = predictor.predict(filepath): predict opens whatever lies at the
\* path now; when it raises, the except block answers 500.
AnalyzePredict ==
  /\ pc = "ready"
  /\ \E r \in DOMAIN inflight :
       /\ inflight[r].pc = "predict"
       /\ LET at    == FilesAt(uploads, inflight[r].filename)
              from  == IF at = {} THEN 0 ELSE (CHOOSE f \in at : TRUE).from
              image == IF at = {} THEN AbsentImage ELSE inflight[from].request.content
          IN  \E env \in SampledEnvsFor(Self, image) :
                LET out == predict(Self, image, env)
                IN  inflight' =
                      [inflight EXCEPT
                         ![r].read = IF out.preprocess_calls = 0 THEN -1 ELSE from,
                         ![r].pc = IF out.raised THEN "done" ELSE "remove",
                         ![r].status = IF out.raised THEN 500 ELSE 0]
  /\ UNCHANGED <<pc, tf_available, model_file, waste_categories, model, model_loaded,
                 img_size, load_calls, uploads, last>>

\* os.remove(filepath) in its try block, then the 200 answer.
AnalyzeRemove ==
  /\ pc = "ready"
  /\ \E r \in DOMAIN inflight :
       /\ inflight[r].pc = "remove"
       /\ \E remove_ok \in BOOLEAN :
            uploads' = IF remove_ok THEN uploads \ FilesAt(uploads, inflight[r].filename)
                                   ELSE uploads
       /\ inflight' = [inflight EXCEPT ![r].pc = "done", ![r].status = 200]
  /\ UNCHANGED <<pc, tf_available, model_file, waste_categories, model, model_loaded,
                 img_size, load_calls, last>>

\* The service under requests handled side by side.
NextConc ==
  \/ Construct
  \/ AnalyzeArrive
  \/ AnalyzeCleanup
  \/ AnalyzeValidate
  \/ AnalyzeSave
  \/ AnalyzePredict
  \/ AnalyzeRemove
  \/ Tick

SpecConc == Init /\ [][NextConc]_vars

\* ------------------------------------------------ construction, by line
\* WastePredictor(model_path) one assignment at a time: pc names the line the
\* constructor stands at ("init:92", "load:100", "load:117", "load:118",
\* "load:126", "load:127") until it returns and pc is "ready".

\* __init__, lines 88-90: the three fields get their first values.
InitFields ==
  /\ pc = "import"
  /\ pc' = "init:92"
  /\ model' = NoModel
  /\ model_loaded' = FALSE
  /\ img_size' = IMG_SIZE
  /\ UNCHANGED <<tf_available, model_file, waste_categories, inflight, load_calls, uploads, last>>

\* __init__, lines 92-95: _load_model is called, or demo mode is announced.
InitBranch ==
  /\ pc = "init:92"
  /\ pc' = IF model_file.given /\ model_file.exists /\ tf_available
             THEN "load:100" ELSE "ready"
  /\ UNCHANGED <<tf_available, model_file, waste_categories, inflight, model, model_loaded,
                 img_size, load_calls, uploads, last>>

\* Variant of LoadChecks: the flag is raised at the top of the try block,
\* before the file is deserialized.
LoadChecksFlagFirst ==
  /\ pc = "load:100"
  /\ IF ~model_file.exists \/ model_file.size = 0
       THEN pc' = "ready" /\ model' = NoModel /\ model_loaded' = FALSE
       ELSE pc' = "load:117" /\ model_loaded' = TRUE /\ UNCHANGED model
  /\ UNCHANGED <<tf_available, model_file, waste_categories, inflight, img_size,
                 load_calls, uploads, last>>

\* _load_model, lines 100-114: the tests of existence and of size, each of
\* which resets both fields and returns.
LoadChecks ==
  /\ pc = "load:100"
  /\ IF ~model_file.exists \/ model_file.size = 0
       THEN pc' = "ready" /\ model' = NoModel /\ model_loaded' = FALSE
       ELSE pc' = "load:117" /\ UNCHANGED <<model, model_loaded>>
  /\ UNCHANGED <<tf_available, model_file, waste_categories, inflight, img_size,
                 load_calls, uploads, last>>

\* _load_model, line 117: self.model = keras.models.load_model(model_path),
\* which raises for a file it rejects.
LoadDeserialize ==
  /\ pc = "load:117"
  /\ load_calls' = load_calls + 1
  /\ IF model_file.loads
       THEN pc' = "load:118" /\ model' = KerasModel(model_file.classes)
       ELSE pc' = "load:126" /\ UNCHANGED model
  /\ UNCHANGED <<tf_available, model_file, waste_categories, inflight, model_loaded,
                 img_size, uploads, last>>

\* _load_model, line 118: self.model_loaded = True
LoadSetFlag ==
  /\ pc = "load:118"
  /\ pc' = "ready"
  /\ model_loaded' = TRUE
  /\ UNCHANGED <<tf_available, model_file, waste_categories, inflight, model, img_size,
                 load_calls, uploads, last>>

\* _load_model, line 126, in the except block: self.model = None
LoadExceptModel ==
  /\ pc = "load:126"
  /\ pc' = "load:127"
  /\ model' = NoModel
  /\ UNCHANGED <<tf_available, model_file, waste_categories, inflight, model_loaded,
                 img_size, load_calls, uploads, last>>

\* _load_model, line 127: self.model_loaded = False
LoadExceptFlag ==
  /\ pc = "load:127"
  /\ pc' = "ready"
  /\ model_loaded' = FALSE
  /\ UNCHANGED <<tf_available, model_file, waste_categories, inflight, model, img_size,
                 load_calls, uploads, last>>

\* The predictor built line by line, then used.
NextInit ==
  \/ InitFields
  \/ InitBranch
  \/ LoadChecks
  \/ LoadDeserialize
  \/ LoadSetFlag
  \/ LoadExceptModel
  \/ LoadExceptFlag
  \/ PredictSampled
  \/ PreprocessImage
  \/ PredictBatch

SpecInit == Init /\ [][NextInit]_vars

\* ================================================================ claims
\* The calls of predict the last step made: the call itself, or the calls
\* of a batch.
LastPredictOuts ==
  IF last.op = "predict" THEN {last.out}
  ELSE IF last.op = "predict_batch" THEN {last.batch.outs[k] : k \in 1..Len(last.batch.outs)}
  ELSE {}

Loaded == pc = "ready" /\ model_loaded /\ model # NoModel
Fallback == pc = "ready" /\ ~(model_loaded /\ model # NoModel)

\* C1: in the Loaded and in the Fallback state, whatever row the model
\* returns (rows longer than the taxonomy included), a call of predict that
\* returns a result returns one whose category_id is one of 0..5, the six
\* keys of WASTE_CATEGORIES; otherwise it raises.
C1_CategoryIdInTaxonomy ==
  \A o \in LastPredictOuts :
    \/ o.raised /\ o.result = NoResult
    \/ ~o.raised /\ o.result.category_id \in 0..5
                 /\ o.result.category_id \in DOMAIN WASTE_CATEGORIES

\* C1 witness: a model with more output units than the taxonomy has entries
\* returned a row and predict returned a result.
C1_Witness ==
  /\ Loaded
  /\ last.op = "predict"
  /\ Len(last.out.predictions) > NumCategories
  /\ ~last.out.raised
  /\ last.out.result.category_id = 5

\* C2: every result predict returns carries a confidence between 0 and 100
\* that is a multiple of 0.1, in the Loaded state (probabilities in [0, 1])
\* and in the Fallback state.
C2_ConfidenceRange ==
  \A o \in LastPredictOuts :
    ~o.raised =>
      /\ 0 <= o.result.confidence
      /\ o.result.confidence <= 100 * Scale
      /\ o.result.confidence % (Scale \div 10) = 0

\* C2 witness: the probability 0.9996 came back as the confidence 100.0.
C2_Witness ==
  /\ Loaded
  /\ last.op = "predict"
  /\ ~last.out.raised
  /\ last.out.predictions[last.out.result.category_id + 1] = 9996
  /\ last.out.result.confidence = 100 * Scale

\* C3: when the deserializer raises for an existing, non-empty model file,
\* construction still completes and leaves model_loaded false and model None.
C3_LoadErrorSwallowed ==
  (pc # "import" /\ tf_available /\ model_file.given /\ model_file.exists
     /\ model_file.size > 0 /\ ~model_file.loads)
  => (pc = "ready" /\ model_loaded = FALSE /\ model = NoModel)

\* C3 witness: the deserializer was called on the rejected file and the
\* predictor is built.
C3_Witness ==
  pc = "ready" /\ model_file = BrokenFile /\ load_calls = 1 /\ last.op = "init"

\* C4: construction with no model path, or with a path at which no file
\* exists, does not raise and leaves model_loaded false.
C4_MissingPathFallback ==
  (pc # "import" /\ (~model_file.given \/ ~model_file.exists))
  => (pc = "ready" /\ model_loaded = FALSE)

\* C4 witness: the predictor was built with a path to no file while
\* tensorflow was importable.
C4_Witness ==
  pc = "ready" /\ model_file = AbsentFile /\ tf_available /\ last.op = "init"

\* C5: construction with a path to a 0-byte file does not raise, never calls
\* the deserializer and leaves model_loaded false.
C5_EmptyFileFallback ==
  (pc # "import" /\ model_file.given /\ model_file.exists /\ model_file.size = 0)
  => (pc = "ready" /\ load_calls = 0 /\ model_loaded = FALSE)

\* C5 witness: the predictor was built from the 0-byte file while tensorflow
\* was importable, so _load_model ran.
C5_Witness ==
  pc = "ready" /\ model_file = EmptyFile /\ tf_available /\ last.op = "init"

\* C6: once construction has finished, no call of predict, predict_batch or
\* preprocess_image and no HTTP request changes model, model_loaded or
\* img_size, whether the call returns or raises.
C6_PredictorReadOnly ==
  [][pc = "ready" =>
       (model' = model /\ model_loaded' = model_loaded /\ img_size' = img_size)]_vars

\* C6 witness: a request to /api/analyze ended in the except block (predict
\* raised) and the predictor still holds its model.
C6_Witness ==
  /\ Loaded
  /\ img_size = IMG_SIZE
  /\ last.op = "analyze"
  /\ last.response.status = 500
  /\ last.response.out.raised

C8_FallbackRanges ==
  Fallback =>
    \A o \in LastPredictOuts :
      ~o.raised =>
        /\ o.result.category_id \in 0..5
        /\ 85 * Scale <= o.result.confidence
        /\ o.result.confidence <= 99 * Scale

\* C8 witness: in the Fallback state predict returned the confidence 99.0
\* for a file that is no image.
C8_Witness ==
  /\ Fallback
  /\ last.op = "predict"
  /\ last.image = GarbageImage
  /\ ~last.out.raised
  /\ last.out.result.confidence = 99 * Scale
  /\ last.out.result.category_id = 5

Undecodable(image) == image.state \in {"garbage", "truncated"}
DecodeErrors == {"UnidentifiedImageError", "OSError"}

\* C9 as stated: in the Loaded and in the Fallback state, predict on a file
\* that does not decode as an image raises an image-decode error and returns
\* no result, and the process keeps running.
C9_DecodeErrorInEveryState ==
  (pc = "ready" /\ last.op = "predict" /\ Undecodable(last.image)) =>
    (last.out.raised /\ last.out.error \in DecodeErrors /\ last.out.result = NoResult)

\* C9 as amended: in the Loaded state, predict on a file that does not decode
\* as an image raises an image-decode error and returns no result, and the
\* process keeps running (the predictor stays ready for the next call).
C9_DecodeErrorWhenLoaded ==
  (model_loaded /\ model # NoModel /\ last.op = "predict" /\ Undecodable(last.image)) =>
    /\ last.out.raised
    /\ last.out.error \in DecodeErrors
    /\ last.out.result = NoResult
    /\ pc = "ready"

\* C9 witness: in the Loaded state predict raised on a file of bytes no
\* codec recognises.
C9_Witness ==
  /\ Loaded
  /\ last.op = "predict"
  /\ last.image = GarbageImage
  /\ last.out.raised
  /\ last.out.error = "UnidentifiedImageError"

\* C10: in the Loaded state, when preprocess_image raises, predict raises the
\* same error, makes one call of preprocess_image and none of the model, and
\* returns no result.
C10_PreprocessErrorPropagates ==
  (Loaded /\ last.op = "predict" /\ last.image.state # "image") =>
    /\ last.out.raised
    /\ last.out.error =
         (CASE last.image.state = "absent"  -> "FileNotFoundError"
            [] last.image.state = "garbage" -> "UnidentifiedImageError"
            [] OTHER                        -> "OSError")
    /\ last.out.preprocess_calls = 1
    /\ last.out.infer_calls = 0
    /\ last.out.predictions = <<>>
    /\ last.out.result = NoResult

\* C10 witness: in the Loaded state predict was called on a path to no file
\* and raised FileNotFoundError without asking the model.
C10_Witness ==
  /\ Loaded
  /\ last.op = "predict"
  /\ last.image = AbsentImage
  /\ last.out.raised
  /\ last.out.error = "FileNotFoundError"
  /\ last.out.infer_calls = 0

\* ---------------------------------------------------------------- C11..C20
ResultKeys ==
  {"item", "category", "confidence", "tip", "co2", "color", "icon", "category_id"}

\* C11: a call of predict either raises and returns nothing, or returns a
\* dict with exactly the eight keys item, category, confidence, tip, co2,
\* color, icon and category_id, whose item, category, tip, co2, color and
\* icon are the name, type, tip, co2, color and icon of the taxonomy entry
\* under the returned category_id.
C11_ResultWholeOrNone ==
  \A o \in LastPredictOuts :
    IF o.raised THEN o.result = NoResult
    ELSE /\ DOMAIN o.result = ResultKeys
         /\ o.result.category_id \in DOMAIN WASTE_CATEGORIES
         /\ LET entry == WASTE_CATEGORIES[o.result.category_id]
            IN  /\ o.result.item = entry.name
                /\ o.result.category = entry.type
                /\ o.result.tip = entry.tip
                /\ o.result.co2 = entry.co2
                /\ o.result.color = entry.color
                /\ o.result.icon = entry.icon

\* C11 witness: in the Loaded state predict returned the entry of index 2.
C11_Witness ==
  /\ Loaded
  /\ last.op = "predict"
  /\ ~last.out.raised
  /\ last.out.result.category_id = 2
  /\ last.out.result.item = "Organic Waste"
  /\ last.out.result.category = "Compostable"

\* C12: when predict raises on none of the paths, predict_batch returns a
\* list as long as the list of paths, whose i-th element is what predict
\* returns for the i-th path, and predict was called once per path, in the
\* order of the list.
C12_BatchElementwise ==
  (last.op = "predict_batch"
     /\ \A k \in 1..Len(last.batch.paths) :
          ~predict(Self, last.batch.paths[k], last.batch.envs[k]).raised)
  => /\ ~last.batch.raised
     /\ Len(last.batch.results) = Len(last.batch.paths)
     /\ Len(last.batch.outs) = Len(last.batch.paths)
     /\ \A k \in 1..Len(last.batch.paths) :
          /\ last.batch.outs[k] = predict(Self, last.batch.paths[k], last.batch.envs[k])
          /\ last.batch.results[k] = last.batch.outs[k].result

\* C12 witness: a batch of two paths returned two different results.
C12_Witness ==
  /\ last.op = "predict_batch"
  /\ ~last.batch.raised
  /\ Len(last.batch.paths) = MaxBatch
  /\ Len(last.batch.results) = MaxBatch
  /\ last.batch.results[1] # last.batch.results[MaxBatch]

\* The first path of the last batch on which predict raises, 0 if none.
FirstFailure ==
  LET failing == { k \in 1..Len(last.batch.paths) :
                     predict(Self, last.batch.paths[k], last.batch.envs[k]).raised }
  IN  IF failing = {} THEN 0
      ELSE CHOOSE k \in failing : \A j \in failing : k <= j

\* C13: when predict raises on the k-th path (and on none before it),
\* predict_batch raises the same error, returns no list, and has called
\* predict on the first k paths only.
C13_BatchAbortsOnFirstFailure ==
  (last.op = "predict_batch" /\ FirstFailure > 0)
  => /\ last.batch.raised
     /\ last.batch.error =
          predict(Self, last.batch.paths[FirstFailure], last.batch.envs[FirstFailure]).error
     /\ last.batch.results = <<>>
     /\ Len(last.batch.outs) = FirstFailure
     /\ \A k \in 1..FirstFailure :
          last.batch.outs[k] = predict(Self, last.batch.paths[k], last.batch.envs[k])

\* C13 witness: predict raised on the first of two paths and the second was
\* never tried.
C13_Witness ==
  /\ last.op = "predict_batch"
  /\ Len(last.batch.paths) = 2
  /\ last.batch.raised
  /\ last.batch.error = "UnidentifiedImageError"
  /\ Len(last.batch.outs) = 1

\* The indexes looked up in the taxonomy: below, inside and above its range.
LookupIndexes == (0 - MaxOut)..MaxOut

\* C14: the taxonomy holds one entry for each of the indexes 0..5 and no
\* other key; looking up an index of 0..5 succeeds and looking up an index
\* below 0 or above 5 raises; and after any operation of the predictor or of
\* the HTTP service it is still the dict the class body defined.
C14_TaxonomyFixed ==
  /\ DOMAIN waste_categories = 0..5
  /\ Cardinality(DOMAIN waste_categories) = 6
  /\ waste_categories = WASTE_CATEGORIES
  /\ \A i \in LookupIndexes :
       /\ (0 <= i /\ i < 6) =>
            (~CategoryInfo(Self, i).raised /\ CategoryInfo(Self, i).info = WASTE_CATEGORIES[i])
       /\ (i < 0 \/ i >= 6) =>
            (CategoryInfo(Self, i).raised /\ CategoryInfo(Self, i).error = "KeyError")

\* C14 witness: a model with seven output units pointed at index 6, the
\* lookup raised, and the taxonomy is the dict the class body defined.
C14_Witness ==
  /\ Loaded
  /\ model.classes = 7
  /\ last.op = "predict"
  /\ last.out.raised
  /\ last.out.error = "KeyError"
  /\ last.out.infer_calls = 1
  /\ waste_categories = WASTE_CATEGORIES

C16_TempFileDeleted ==
  (last.op = "analyze" /\ last.response.saved # <<>> /\ ~last.response.remove_failed) =>
    \A f \in uploads : f.name # last.response.saved

\* C17: when predict raises an image-decode error for an upload, the analyze
\* handler answers with a status of the 4xx class, not of the 5xx class.
C17_DecodeErrorIsClientError ==
  (last.op = "analyze"
     /\ last.response.predict_calls = 1
     /\ last.response.out.raised
     /\ last.response.out.error \in DecodeErrors)
  => (400 <= last.response.status /\ last.response.status <= 499)

\* C19: for every file that decodes as an image, whatever its mode (RGB,
\* RGBA, L, P, LA, CMYK) and its size, preprocess_image returns a tensor of
\* shape [1, 224, 224, 3] whose values all lie in [0, 1].
C19_PreprocessShape ==
  (last.op = "preprocess_image" /\ last.image.state = "image") =>
    /\ ~last.pre.raised
    /\ last.pre.tensor.shape = <<1, 224, 224, 3>>
    /\ 0 <= last.pre.tensor.lo
    /\ last.pre.tensor.lo <= last.pre.tensor.hi
    /\ last.pre.tensor.hi <= Scale

CategoryTypes == {"Recyclable", "Compostable"}

\* C20: the taxonomy entry of index 3 is named Paper, of type Recyclable and
\* of color #10B981, and every result of predict with category_id 3 has item
\* Paper, category Recyclable and color #10B981; the type of every taxonomy
\* entry, and the category of every result, is Recyclable or Compostable.
C20_PaperIsRecyclable ==
  /\ waste_categories[3].name = "Paper"
  /\ waste_categories[3].type = "Recyclable"
  /\ waste_categories[3].color = "#10B981"
  /\ \A i \in DOMAIN waste_categories : waste_categories[i].type \in CategoryTypes
  /\ \A o \in LastPredictOuts :
       ~o.raised =>
         /\ o.result.category \in CategoryTypes
         /\ o.result.category_id = 3 =>
              /\ o.result.item = "Paper"
              /\ o.result.category = "Recyclable"
              /\ o.result.color = "#10B981"

\* C20 witness: in the Loaded state the model put its largest probability at
\* index 3 and predict returned Paper.
C20_Witness ==
  /\ Loaded
  /\ last.op = "predict"
  /\ ~last.out.raised
  /\ NpArgmax(last.out.predictions) = 3
  /\ last.out.result.category_id = 3
  /\ last.out.result.item = "Paper"

\* C18: under every interleaving of the requests in flight, the temp file a
\* request saved and is about to read stays at its path, with that request's
\* bytes, until the request's call of predict is over, and a call of predict
\* that opens a path finds there the file its own request saved.
C18_RequestsIndependent ==
  \A r \in DOMAIN inflight :
    /\ (inflight[r].pc = "predict" /\ IsLoaded(Self)) =>
         \E f \in uploads : f.name = inflight[r].filename /\ f.from = r
    /\ inflight[r].read \in {-1, r}

\* ---------------------------------------------------------------- C21..C29
\* C21: GET /health and GET /api/stats are answered with 200 in the Loaded
\* and in the Fallback state, the flag they report is the predictor's
\* model_loaded, and /api/stats reports 6 categories, the size of the
\* taxonomy.
C21_StatusEndpoints ==
  /\ last.op = "health" =>
       /\ last.response.status = 200
       /\ last.response.model_loaded = model_loaded
  /\ last.op = "stats" =>
       /\ last.response.status = 200
       /\ last.response.model_loaded = model_loaded
       /\ last.response.categories = 6
       /\ last.response.categories = Cardinality(DOMAIN waste_categories)

\* C21 witness: in the Fallback state /health reported model_loaded false.
C21_Witness ==
  /\ Fallback
  /\ last.op = "health"
  /\ last.response.status = 200
  /\ last.response.model_loaded = FALSE

\* The results a call of predict on `image` can return in the current state.
PossibleResults(image) ==
  { predict(Self, image, env).result :
      env \in { e \in EnvsFor(Self, image) : ~predict(Self, image, e).raised } }

\* C22: in the Fallback state, whatever the path, each index of 0..5 is the
\* category_id of some result predict can return, and the confidences it can
\* return reach 85.0 at the low end and 99.0 at the high end and none lies
\* outside.
C22_FallbackCoversRange ==
  Fallback =>
    \A image \in PredictImages :
      /\ \A i \in 0..5 : \E r \in PossibleResults(image) : r.category_id = i
      /\ \E r \in PossibleResults(image) : r.confidence = 85 * Scale
      /\ \E r \in PossibleResults(image) : r.confidence = 99 * Scale
      /\ \A r \in PossibleResults(image) :
           85 * Scale <= r.confidence /\ r.confidence <= 99 * Scale

\* C22 witness: in the Fallback state a call of predict returned the last
\* index with the lowest confidence.
C22_Witness ==
  /\ Fallback
  /\ last.op = "predict"
  /\ last.image = ImageFile("RGB", 640, 480)
  /\ ~last.out.raised
  /\ last.out.result.category_id = 5
  /\ last.out.result.confidence = 85 * Scale

\* C23 as stated: in every state of the predictor, while the constructor
\* runs and after it, model_loaded is true exactly when model is not None.
C23_LoadedIffModel ==
  model_loaded <=> model # NoModel

\* C23 as amended: in every state of the predictor, while the constructor
\* runs and after it, model_loaded is never true while model is None, on any
\* path of initialization (missing file, empty file, load exception,
\* successful load); and once the constructor has returned, model_loaded is
\* true exactly when model is not None.
C23_NeverLoadedWithoutModel ==
  /\ model_loaded => model # NoModel
  /\ pc = "ready" => (model_loaded <=> model # NoModel)

\* C23 witness: the constructor stands between lines 117 and 118, the model
\* deserialized and the flag not yet raised.
C23_Witness ==
  /\ pc = "load:118"
  /\ model = KerasModel(6)
  /\ ~model_loaded
  /\ load_calls = 1

\* A step in which only time passes: no call or request is made and every
\* file of the upload folder is the same file, no younger than it was.
TimePasses ==
  /\ last' = last
  /\ \A g \in uploads' : \E f \in uploads : f.name = g.name /\ f.ts = g.ts /\ f.age <= g.age
  /\ \A f \in uploads : \E g \in uploads' : f.name = g.name /\ f.ts = g.ts /\ f.age <= g.age

\* C24: a POST to /api/analyze with no 'image' part, with an empty file
\* name or with a name allowed_file refuses is answered with 400, writes no
\* file to the upload folder and does not call predict; and predict is
\* called only for a request that passed the three tests, on the path its
\* upload was saved to.
C24_ValidateBeforeAct ==
  [][(last'.op = "analyze" /\ ~TimePasses) =>
       /\ (last'.request.method = "POST" /\ ~CallsPredict(last'.request)) =>
            /\ last'.response.status = 400
            /\ last'.response.predict_calls = 0
            /\ last'.response.saved = <<>>
            /\ uploads' \subseteq uploads
       /\ last'.response.predict_calls = 1 =>
            /\ last'.request.has_image
            /\ last'.request.filename # <<>>
            /\ allowed_file(last'.request.filename)
            /\ last'.response.saved # <<>>]_vars

\* C24 witness: an upload named a.txt was refused with 400 and predict was
\* not called.
C24_Witness ==
  /\ last.op = "analyze"
  /\ last.request.has_image
  /\ last.request.filename = <<"a", ".", "t", "x", "t">>
  /\ last.response.status = 400
  /\ last.response.error = "Invalid file type"
  /\ last.response.predict_calls = 0

\* The extensions the default configuration allows, as the claim lists them.
DefaultExtensions ==
  { <<"p", "n", "g">>, <<"j", "p", "g">>, <<"j", "p", "e", "g">>,
    <<"g", "i", "f">>, <<"w", "e", "b", "p">> }

UpperOf(c) ==
  CASE c = "p" -> "P" [] c = "n" -> "N" [] c = "g" -> "G"
    [] c = "j" -> "J" [] c = "e" -> "E" [] c = "i" -> "I"
    [] c = "f" -> "F" [] c = "w" -> "W" [] c = "b" -> "B" [] OTHER -> c

\* s is the extension e written in any mix of cases.
SameIgnoringCase(s, e) ==
  /\ Len(s) = Len(e)
  /\ \A k \in 1..Len(e) : s[k] \in {e[k], UpperOf(e[k])}

\* The name holds a '.', and what follows its last '.' is an allowed extension
\* in some mix of cases.
HasAllowedExtension(name) ==
  \E d \in 1..Len(name) :
    /\ name[d] = "."
    /\ \A k \in (d + 1)..Len(name) : name[k] # "."
    /\ \E e \in DefaultExtensions : SameIgnoringCase(SubSeq(name, d + 1, Len(name)), e)

\* C25: allowed_file(filename) is true exactly when the name holds a '.' and
\* what follows its last '.' is, without regard to case, one of png, jpg,
\* jpeg, gif, webp; a name with no dot, with nothing after its last dot or
\* with another extension is refused.
C25_AllowedFileByLastExtension ==
  last.op = "allowed_file" =>
    /\ last.allowed <=> HasAllowedExtension(last.filename)
    /\ (\A k \in 1..Len(last.filename) : last.filename[k] # ".") => ~last.allowed
    /\ (last.filename # <<>> /\ last.filename[Len(last.filename)] = ".") => ~last.allowed

\* C25 witness: a name with two dots whose last extension is PNG in upper
\* case was allowed.
C25_Witness ==
  /\ last.op = "allowed_file"
  /\ last.filename = <<"a", ".", "t", "x", "t", ".", "P", "N", "G">>
  /\ last.allowed

\* C26: when tensorflow cannot be imported, construction ends in the
\* Fallback state without raising and without a call of the deserializer,
\* whatever lies at the model path: no path, no file, an empty file, a file
\* the deserializer would reject or a valid model file.
C26_NoRuntimeFallback ==
  (pc # "import" /\ ~tf_available) =>
    /\ pc = "ready"
    /\ model_loaded = FALSE
    /\ model = NoModel
    /\ load_calls = 0

\* C26 witness: the predictor was built without tensorflow while a valid
\* model file lay at the model path.
C26_Witness ==
  /\ pc = "ready"
  /\ ~tf_available
  /\ model_file = GoodFile(6)
  /\ last.op = "init"
  /\ Fallback

\* C27: the cleanup at the start of a POST to /api/analyze deletes only
\* files of the upload folder older than 3600 seconds and keeps every file
\* of 3600 seconds or less; an error on its way is swallowed: whatever part
\* of the old files it deleted, the status of the response is the one the
\* request and the prediction alone decide.
C27_CleanupOnlyOldFiles ==
  [][(last'.op = "analyze" /\ ~TimePasses /\ last'.request.method = "POST") =>
       /\ \A f \in uploads : f.age <= 3600 => f \in uploads'
       /\ \A f \in uploads \ uploads' : f.age > 3600
       /\ \A f \in last'.response.unlinked :
            f \in uploads /\ f.age > 3600 /\ f \notin uploads'
       /\ last'.response.status =
            IF ~CallsPredict(last'.request) THEN 400
            ELSE IF last'.response.out.raised THEN 500 ELSE 200]_vars

\* C27 witness: a request found a file older than an hour in the upload
\* folder, deleted it and was answered with 200.
C27_Witness ==
  /\ last.op = "analyze"
  /\ last.response.status = 200
  /\ \E f \in last.response.unlinked : f.age = 3601
  /\ uploads = {}

\* floor(n * ratio)
FloorOfProduct(n, ratio) == (n * ratio) \div RatioDen

\* The images of class c are split as claimed: each listed image is copied
\* into exactly one of the three sets, train and val have the floored sizes,
\* and test has the rest whatever test_ratio is.
SplitAsClaimed(c) ==
  LET call == last.split
      listed == ListedImages(call.data_dir[c].files, SplitSuffixes)
      n == Cardinality(listed)
      lists == call.lists[c]
  IN  /\ \A img \in listed :
           Cardinality({ split \in SplitNames : <<split, c, img>> \in call.copied }) = 1
      /\ \A d \in call.copied : d[2] = c => d[3] \in listed
      /\ Len(lists.train) = FloorOfProduct(n, call.train_ratio)
      /\ Len(lists.val) = FloorOfProduct(n, call.val_ratio)
      /\ Len(lists.test) = n - Len(lists.train) - Len(lists.val)
      /\ \A test_ratio \in TestRatios :
           split_dataset(call.data_dir, call.shuffled, call.train_ratio, call.val_ratio,
                         test_ratio).lists[c] = lists

ProvidedSizesFit(c) ==
  LET n == Cardinality(ListedImages(last.split.data_dir[c].files, SplitSuffixes))
  IN  FloorOfProduct(n, last.split.train_ratio) + FloorOfProduct(n, last.split.val_ratio) <= n

BucketNames == {"valid", "corrupted", "too_small", "too_large", "wrong_format"}

\* total is the sum of the five buckets, and each image counted so far is
\* counted in total and in exactly one bucket.
CleanCountersAddUp ==
  LET stats == last.clean.stats
  IN  /\ stats.total = stats.valid + stats.corrupted + stats.too_small + stats.too_large
                         + stats.wrong_format
      /\ \A bucket \in BucketNames :
           stats[bucket] = Cardinality({ c \in last.clean.counted : c.bucket = bucket })
      /\ stats.total = Cardinality({ <<c.class_name, c.img_name>> : c \in last.clean.counted })

\* Every file of the output directory is of an image counted as valid.
CleanWritesOnlyValid ==
  \A o \in last.clean.output :
    [class_name |-> o.class_name, img_name |-> o.img_name, bucket |-> "valid"]
      \in last.clean.counted

\* C29: in clean_dataset, after any number of processed images, total =
\* valid + corrupted + too_small + too_large + wrong_format, every image
\* counted in total is counted in exactly one bucket, and an image is
\* written to the output directory only if it is counted as valid.
C29_CountersAndWrites ==
  last.op = "clean_dataset" => (CleanCountersAddUp /\ CleanWritesOnlyValid)
====
